---- MODULE Spec2Model ----
(***************************************************************************)
(* Model of the news sentiment service of py-agent/main.py.                *)
(*                                                                         *)
(* Text is a sequence of characters.  An ASCII character is the one-letter *)
(* string itself; any other character is named by its code point, "Uxxxx". *)
(* A confidence is kept in hundredths (0.85 is 85).                        *)
(***************************************************************************)
EXTENDS Integers, Sequences, FiniteSets, TLC

\* ---------------------------------------------------------------- bounds
\* Longest news list a request carries.
MaxItems == 2
\* Most requests accepted by the server and waiting for the event loop.
MaxPending == 2

\* ------------------------------------------------------------ characters
UpperCase == <<"A", "B", "C", "D", "E", "F", "G", "H", "I", "J", "K", "L", "M",
               "N", "O", "P", "Q", "R", "S", "T", "U", "V", "W", "X", "Y", "Z">>
LowerCase == <<"a", "b", "c", "d", "e", "f", "g", "h", "i", "j", "k", "l", "m",
               "n", "o", "p", "q", "r", "s", "t", "u", "v", "w", "x", "y", "z">>

\* str.lower() on one character: only cased letters change.
LowerChar(c) ==
    IF c \in {UpperCase[k] : k \in 1..26}
    THEN LowerCase[CHOOSE k \in 1..26 : UpperCase[k] = c]
    ELSE c

\* str.lower(): every character lowered, the two halves one after the other.
RECURSIVE lower(_)
lower(s) ==
    IF s = <<>> THEN <<>>
    ELSE IF Len(s) = 1 THEN <<LowerChar(s[1])>>
    ELSE lower(SubSeq(s, 1, Len(s) \div 2))
         \o lower(SubSeq(s, (Len(s) \div 2) + 1, Len(s)))

\* The characters str.strip() removes (those of them the replies use).
Whitespace == {" ", "\n", "\t", "\r"}

RECURSIVE lstrip(_)
lstrip(s) ==
    IF s # <<>> /\ s[1] \in Whitespace THEN lstrip(Tail(s)) ELSE s

RECURSIVE rstrip(_)
rstrip(s) ==
    IF s # <<>> /\ s[Len(s)] \in Whitespace
    THEN rstrip(SubSeq(s, 1, Len(s) - 1))
    ELSE s

\* str.strip()
strip(s) == rstrip(lstrip(s))

\* `kw in s`: substring containment.
Contains(kw, s) ==
    \E k \in 0..(Len(s) - Len(kw)) : SubSeq(s, k + 1, k + Len(kw)) = kw

Digits == <<"0", "1", "2", "3", "4", "5", "6", "7", "8", "9">>

\* str(n) of a natural number, as an f-string formats it.
RECURSIVE IntToStr(_)
IntToStr(n) ==
    IF n < 10 THEN <<Digits[n + 1]>>
    ELSE IntToStr(n \div 10) \o <<Digits[(n % 10) + 1]>>

\* ------------------------------------------------------------- keywords
\* zhang, shangzhang, lihao, mairu, tuijian, zengzhang, shouyi, chuangxin,
\* tupo, qiangjing
positive_keywords ==
    << <<"U6DA8">>,
       <<"U4E0A", "U6DA8">>,
       <<"U5229", "U597D">>,
       <<"U4E70", "U5165">>,
       <<"U63A8", "U8350">>,
       <<"U589E", "U957F">>,
       <<"U6536", "U76CA">>,
       <<"U521B", "U65B0">>,
       <<"U7A81", "U7834">>,
       <<"U5F3A", "U52B2">> >>

\* die, xiadie, likong, maichu, jinggao, kuisun, fengxian, weiji, shuaitui,
\* piruan
negative_keywords ==
    << <<"U8DCC">>,
       <<"U4E0B", "U8DCC">>,
       <<"U5229", "U7A7A">>,
       <<"U5356", "U51FA">>,
       <<"U8B66", "U544A">>,
       <<"U4E8F", "U635F">>,
       <<"U98CE", "U9669">>,
       <<"U5371", "U673A">>,
       <<"U8870", "U9000">>,
       <<"U75B2", "U8F6F">> >>

Positive == <<"P", "o", "s", "i", "t", "i", "v", "e">>
Negative == <<"N", "e", "g", "a", "t", "i", "v", "e">>
Neutral  == <<"N", "e", "u", "t", "r", "a", "l">>

\* ------------------------------------------------- the keyword heuristic
\* The inner loops over one item: how many keywords of the list it contains.
KeywordHits(keywords, item) ==
    LET item_lower == lower(item)
    IN  Cardinality({k \in 1..Len(keywords) :
                        Contains(keywords[k], item_lower)})

\* The outer loop: the count over all items.
RECURSIVE CountSignals(_, _)
CountSignals(keywords, news_items) ==
    IF news_items = <<>> THEN 0
    ELSE KeywordHits(keywords, Head(news_items))
         + CountSignals(keywords, Tail(news_items))

Min(a, b) == IF a <= b THEN a ELSE b

\* SignalConfidence without its ceiling.
UncappedConfidence(count) == 60 + count * 10

\* min(0.9, 0.6 + count * 0.1), in hundredths.
SignalConfidence(count) == Min(90, 60 + count * 10)

\* f"jiyu{count}ge zhengmian xinhao de fenxi jieguo"
PositiveReason(count) ==
    <<"U57FA", "U4E8E">> \o IntToStr(count)
    \o <<"U4E2A", "U6B63", "U9762", "U4FE1", "U53F7", "U7684", "U5206",
         "U6790", "U7ED3", "U679C">>

\* f"jiyu{count}ge fumian xinhao de fenxi jieguo"
NegativeReason(count) ==
    <<"U57FA", "U4E8E">> \o IntToStr(count)
    \o <<"U4E2A", "U8D1F", "U9762", "U4FE1", "U53F7", "U7684", "U5206",
         "U6790", "U7ED3", "U679C">>

\* "wei faxian mingque de zhengmian huo fumian xinhao"
NoSignalReason ==
    <<"U672A", "U53D1", "U73B0", "U660E", "U786E", "U7684", "U6B63", "U9762",
      "U6216", "U8D1F", "U9762", "U4FE1", "U53F7">>

\* A NewsAnalysisResponse.
Response(symbol, sentiment, reason, confidence) ==
    [symbol |-> symbol, sentiment |-> sentiment, reason |-> reason,
     confidence_score |-> confidence]

mock_analyze_news(symbol, news_items) ==
    LET positive_count == CountSignals(positive_keywords, news_items)
        negative_count == CountSignals(negative_keywords, news_items)
        sentiment_score == positive_count - negative_count
    IN  IF sentiment_score > 0
        THEN Response(symbol, Positive, PositiveReason(positive_count),
                      SignalConfidence(positive_count))
        ELSE IF sentiment_score < 0
        THEN Response(symbol, Negative, NegativeReason(negative_count),
                      SignalConfidence(negative_count))
        ELSE Response(symbol, Neutral, NoSignalReason, 50)

\* ----------------------------------------------------------- json.loads
\* The decoder for the JSON the replies below are written in: objects,
\* arrays, strings without escapes, numbers without exponent and with at
\* most two fraction digits, null, true and false.
\* A parsed JSON value: t is its type ("null", "true", "false", "int",
\* "float", "string", "object", "array"), s the characters of a string, n a
\* number in hundredths, m the members <<key, value>> of an object in the
\* order read, or the elements of an array.
JValue(t, s, n, m) == [t |-> t, s |-> s, n |-> n, m |-> m]

ParseOk(pos, val) == [ok |-> TRUE, pos |-> pos, val |-> val]
ParseFail == [ok |-> FALSE, pos |-> 0, val |-> JValue("null", <<>>, 0, <<>>)]

IsDigit(c) == \E k \in 1..10 : Digits[k] = c
DigitVal(c) == (CHOOSE k \in 1..10 : Digits[k] = c) - 1

\* The scanner's whitespace match from position i.
RECURSIVE SkipWs(_, _)
SkipWs(s, i) ==
    IF i <= Len(s) /\ s[i] \in Whitespace THEN SkipWs(s, i + 1) ELSE i

\* The first position from i that holds no digit.
RECURSIVE DigitsEnd(_, _)
DigitsEnd(s, i) ==
    IF i <= Len(s) /\ IsDigit(s[i]) THEN DigitsEnd(s, i + 1) ELSE i

\* The number the digits s[a..b] write.
RECURSIVE DigitsToInt(_, _, _)
DigitsToInt(s, a, b) ==
    IF a > b THEN 0 ELSE DigitsToInt(s, a, b - 1) * 10 + DigitVal(s[b])

\* Hundredths written by the fraction digits s[a..b] (its first two digits).
FractionToHundredths(s, a, b) ==
    (IF a <= b THEN DigitVal(s[a]) * 10 ELSE 0)
    + (IF a + 1 <= b THEN DigitVal(s[a + 1]) ELSE 0)

\* The closing quote of the string whose first character is at i; 0 when
\* the string is not closed, or holds a control character or an escape.
RECURSIVE StringEnd(_, _)
StringEnd(s, i) ==
    IF i > Len(s) THEN 0
    ELSE IF s[i] = "\"" THEN i
    ELSE IF s[i] \in {"\n", "\t", "\r", "\\"} THEN 0
    ELSE StringEnd(s, i + 1)

\* A string literal opening at i.
ParseString(s, i) ==
    LET e == StringEnd(s, i + 1)
    IN  IF e = 0 THEN ParseFail
        ELSE ParseOk(e + 1, JValue("string", SubSeq(s, i + 1, e - 1), 0, <<>>))

\* -?(0|[1-9][0-9]*)(\.[0-9]+)? at i.
ParseNumber(s, i) ==
    LET neg == s[i] = "-"
        a == IF neg THEN i + 1 ELSE i
    IN  IF a > Len(s) \/ ~IsDigit(s[a]) THEN ParseFail
        ELSE
        LET intEnd == IF s[a] = "0" THEN a + 1 ELSE DigitsEnd(s, a)
            hasFrac == /\ intEnd + 1 <= Len(s)
                       /\ s[intEnd] = "."
                       /\ IsDigit(s[intEnd + 1])
            fracEnd == IF hasFrac THEN DigitsEnd(s, intEnd + 1) ELSE intEnd
            mag == DigitsToInt(s, a, intEnd - 1) * 100
                   + (IF hasFrac
                      THEN FractionToHundredths(s, intEnd + 1, fracEnd - 1)
                      ELSE 0)
        IN  ParseOk(fracEnd,
                    JValue(IF hasFrac THEN "float" ELSE "int", <<>>,
                           IF neg THEN 0 - mag ELSE mag, <<>>))

\* Whether the characters of word stand at i.
StartsWith(s, i, word) ==
    i + Len(word) - 1 <= Len(s) /\ SubSeq(s, i, i + Len(word) - 1) = word

RECURSIVE ParseValue(_, _)
RECURSIVE ParseMembers(_, _, _)
RECURSIVE MemberColon(_, _, _)
RECURSIVE MemberValue(_, _, _, _)
RECURSIVE MemberEnd(_, _, _, _)
RECURSIVE MemberNext(_, _, _)
RECURSIVE ParseElements(_, _, _)
RECURSIVE ElementEnd(_, _, _)
RECURSIVE ElementNext(_, _, _)

EmptyObject == JValue("object", <<>>, 0, <<>>)
EmptyArray == JValue("array", <<>>, 0, <<>>)

\* After the brace at i - 1: the closing brace, or the members.
ObjectBody(s, j) ==
    IF j <= Len(s) /\ s[j] = "}"
    THEN ParseOk(j + 1, EmptyObject)
    ELSE ParseMembers(s, j, <<>>)

\* After the bracket at i - 1: the closing bracket, or the elements.
ArrayBody(s, j) ==
    IF j <= Len(s) /\ s[j] = "]"
    THEN ParseOk(j + 1, EmptyArray)
    ELSE ParseElements(s, j, <<>>)

\* The scanner's scan_once at i.
ParseValue(s, i) ==
    IF i > Len(s) THEN ParseFail
    ELSE IF s[i] = "\"" THEN ParseString(s, i)
    ELSE IF s[i] = "{" THEN ObjectBody(s, SkipWs(s, i + 1))
    ELSE IF s[i] = "[" THEN ArrayBody(s, SkipWs(s, i + 1))
    ELSE IF s[i] = "-" \/ IsDigit(s[i]) THEN ParseNumber(s, i)
    ELSE IF StartsWith(s, i, <<"n", "u", "l", "l">>)
    THEN ParseOk(i + 4, JValue("null", <<>>, 0, <<>>))
    ELSE IF StartsWith(s, i, <<"t", "r", "u", "e">>)
    THEN ParseOk(i + 4, JValue("true", <<>>, 100, <<>>))
    ELSE IF StartsWith(s, i, <<"f", "a", "l", "s", "e">>)
    THEN ParseOk(i + 5, JValue("false", <<>>, 0, <<>>))
    ELSE ParseFail

\* The members of an object from the key at i, acc being those read: the
\* key, the colon, the value, then a comma or the closing brace.
ParseMembers(s, i, acc) ==
    IF i > Len(s) \/ s[i] # "\"" THEN ParseFail
    ELSE MemberColon(s, ParseString(s, i), acc)

MemberColon(s, key, acc) ==
    IF ~key.ok THEN ParseFail
    ELSE MemberValue(s, key.val.s, SkipWs(s, key.pos), acc)

MemberValue(s, name, c, acc) ==
    IF c > Len(s) \/ s[c] # ":" THEN ParseFail
    ELSE MemberEnd(s, name, ParseValue(s, SkipWs(s, c + 1)), acc)

MemberEnd(s, name, v, acc) ==
    IF ~v.ok THEN ParseFail
    ELSE MemberNext(s, SkipWs(s, v.pos), Append(acc, <<name, v.val>>))

MemberNext(s, e, read) ==
    IF e > Len(s) THEN ParseFail
    ELSE IF s[e] = "}" THEN ParseOk(e + 1, JValue("object", <<>>, 0, read))
    ELSE IF s[e] = "," THEN ParseMembers(s, SkipWs(s, e + 1), read)
    ELSE ParseFail

\* The elements of an array from the value at i, acc being those read.
ParseElements(s, i, acc) == ElementEnd(s, ParseValue(s, i), acc)

ElementEnd(s, v, acc) ==
    IF ~v.ok THEN ParseFail
    ELSE ElementNext(s, SkipWs(s, v.pos), Append(acc, v.val))

ElementNext(s, e, read) ==
    IF e > Len(s) THEN ParseFail
    ELSE IF s[e] = "]" THEN ParseOk(e + 1, JValue("array", <<>>, 0, read))
    ELSE IF s[e] = "," THEN ParseElements(s, SkipWs(s, e + 1), read)
    ELSE ParseFail

\* The value at the first character that is no whitespace.
Decode(content) == ParseValue(content, SkipWs(content, 1))

\* The value v when nothing but whitespace follows it.
WholeText(content, v) ==
    IF v.ok /\ SkipWs(content, v.pos) = Len(content) + 1 THEN v ELSE ParseFail

\* json.loads(content): ok is FALSE where it raises JSONDecodeError (no
\* value, or text after the value).
json_loads(content) == WholeText(content, Decode(content))

\* ------------------------------------------------------ the provider path
\* dict.get(key, default) on the members read: the last one of a key wins.
RECURSIVE dict_get(_, _, _)
dict_get(members, key, default) ==
    IF members = <<>> THEN default
    ELSE IF members[Len(members)][1] = key THEN members[Len(members)][2]
    ELSE dict_get(SubSeq(members, 1, Len(members) - 1), key, default)

JString(s) == JValue("string", s, 0, <<>>)

\* float(str): surrounding whitespace, a sign, digits and a fraction; ok is
\* FALSE where it raises ValueError.
FloatOfString(s) ==
    LET t == strip(s)
        signed == t # <<>> /\ t[1] \in {"+", "-"}
        body == IF signed THEN Tail(t) ELSE t
        intEnd == DigitsEnd(body, 1)
        hasDot == intEnd <= Len(body) /\ body[intEnd] = "."
        fracEnd == IF hasDot THEN DigitsEnd(body, intEnd + 1) ELSE intEnd
        mag == DigitsToInt(body, 1, intEnd - 1) * 100
               + FractionToHundredths(body, intEnd + 1, fracEnd - 1)
    IN  IF intEnd = 1 \/ fracEnd # Len(body) + 1
        THEN [ok |-> FALSE, n |-> 0]
        ELSE [ok |-> TRUE, n |-> IF signed /\ t[1] = "-" THEN 0 - mag ELSE mag]

\* float(v): ok is FALSE where it raises (ValueError for a string that is no
\* number, TypeError for None, a list or a dict).
float_of(v) ==
    IF v.t \in {"int", "float", "true", "false"} THEN [ok |-> TRUE, n |-> v.n]
    ELSE IF v.t = "string" THEN FloatOfString(v.s)
    ELSE [ok |-> FALSE, n |-> 0]

\* The field constraints of NewsAnalysisResponse: sentiment and reason are
\* str, confidence_score is ge=0.0 and le=1.0.
FieldsValid(sentiment, reason, confidence) ==
    /\ sentiment.t = "string"
    /\ reason.t = "string"
    /\ confidence >= 0
    /\ confidence <= 100

\* "jiyu LLM fenxi de jieguo"
DefaultReason ==
    <<"U57FA", "U4E8E", "L", "L", "M", "U5206", "U6790", "U7684", "U7ED3",
      "U679C">>

KeySentiment == <<"s", "e", "n", "t", "i", "m", "e", "n", "t">>
KeyReason == <<"r", "e", "a", "s", "o", "n">>
KeyConfidence == <<"c", "o", "n", "f", "i", "d", "e", "n", "c", "e", "_",
                   "s", "c", "o", "r", "e">>

\* What a step of the provider path hands on: raised says an exception left
\* it, path names the branch that built the response.
Returned(path, response) ==
    [raised |-> FALSE, path |-> path, response |-> response]
Raised ==
    [raised |-> TRUE, path |-> "raised",
     response |-> Response(<<>>, <<>>, <<>>, 0)]

\* The response built from parsed JSON: result.get raises on anything but a
\* dict, float() on a value it cannot convert, the model's validation on a
\* field out of its constraints.
StructuredResponse(symbol, result) ==
    IF result.t # "object" THEN Raised
    ELSE
    LET sentiment == dict_get(result.m, KeySentiment, JString(Neutral))
        reason == dict_get(result.m, KeyReason, JString(DefaultReason))
        confidence == float_of(dict_get(result.m, KeyConfidence,
                                        JValue("float", <<>>, 70, <<>>)))
    IN  IF ~confidence.ok THEN Raised
        ELSE IF ~FieldsValid(sentiment, reason, confidence.n) THEN Raised
        ELSE Returned("structured",
                      Response(symbol, sentiment.s, reason.s, confidence.n))

\* Length at which the text of a reply is cut.
ReasonLimit == 200

\* LooseSentiment that compares without lowering the text.
LooseSentimentCased(content) ==
    IF Contains(lower(Positive), content) THEN Positive
    ELSE IF Contains(lower(Negative), content) THEN Negative
    ELSE Neutral

\* The sentiment read off text that is no JSON.
LooseSentiment(content) ==
    IF Contains(lower(Positive), lower(content)) THEN Positive
    ELSE IF Contains(lower(Negative), lower(content)) THEN Negative
    ELSE Neutral

\* content[:200] + "..." if len(content) > 200 else content
LooseReason(content) ==
    IF Len(content) > ReasonLimit
    THEN SubSeq(content, 1, ReasonLimit) \o <<".", ".", ".">>
    ELSE content

LooseResponse(symbol, content) ==
    Returned("loose",
             Response(symbol, LooseSentiment(content), LooseReason(content),
                      80))

\* What the provider call ends with: an exception (kind "raise"), a message
\* without content (kind "none"), or the text of the message.
ReplyRaise == [kind |-> "raise", content |-> <<>>]
ReplyNone == [kind |-> "none", content |-> <<>>]
ReplyText(content) == [kind |-> "text", content |-> content]

\* The try block from the provider's reply on.
ParseReply(symbol, reply) ==
    IF reply.kind # "text" THEN Raised
    ELSE
    LET content == strip(reply.content)
        result == json_loads(content)
    IN  IF result.ok
        THEN StructuredResponse(symbol, result.val)
        ELSE LooseResponse(symbol, content)

\* The except clause that lets the exception leave real_analyze_news.
PropagateOnException(symbol, news_items) == Raised

\* except Exception: the heuristic answers.
FallbackOnException(symbol, news_items) ==
    Returned("fallback", mock_analyze_news(symbol, news_items))

\* real_analyze_news from the try block's end on: tried is what the block
\* returned, or that it raised.
AfterTry(symbol, news_items, tried) ==
    IF tried.raised
    THEN FallbackOnException(symbol, news_items)
    ELSE tried

\* ClientConfigured that takes any handle for a client.
AnyHandleConfigured(client) == TRUE

\* `if not openai_client` negated.
ClientConfigured(client) == client # "None"

\* InvalidRequest that forgets the news list.
EmptySymbolOnly(symbol, news_items) == symbol = <<>>

\* The two validations of analyze_news.
InvalidRequest(symbol, news_items) == symbol = <<>> \/ news_items = <<>>

\* --------------------------------------------------------------- inputs
Symbols == {<<>>, <<"A", "A", "P", "L">>}

\* pingguo fabu xin iPhone
ItemIphone ==
    <<"U82F9", "U679C", "U53D1", "U5E03", "U65B0", "i", "P", "h", "o", "n",
      "e">>
\* kejigu shangzhang
ItemTechRise == <<"U79D1", "U6280", "U80A1", "U4E0A", "U6DA8">>
\* gongsi mianlin zhongda kuisun fengxian
ItemLossRisk ==
    <<"U516C", "U53F8", "U9762", "U4E34", "U91CD", "U5927", "U4E8F", "U635F",
      "U98CE", "U9669">>
\* lihao qiangjing zengzhang
ItemStrongGrowth == <<"U5229", "U597D", "U5F3A", "U52B2", "U589E", "U957F">>

\* yeji zengzhang dan you fengxian
ItemGrowthRisk ==
    <<"U4E1A", "U7EE9", "U589E", "U957F", "U4F46", "U6709", "U98CE", "U9669">>

NewsItems ==
    {ItemIphone, ItemTechRise, ItemLossRisk, ItemStrongGrowth, ItemGrowthRisk}

NewsLists == UNION {[1..n -> NewsItems] : n \in 0..MaxItems}

ApiKeys == {"unset", "", "your_openai_api_key_here", "sk-live"}

\* Text of n characters that is no JSON and names a sentiment.
LongText(n) ==
    [k \in 1..n |-> IF k <= Len(Negative) THEN Negative[k] ELSE "."]

\* {"sentiment": "Positive", "reason": "ok", "confidence_score": 0.85}
ReplyFull ==
    <<"{", "\"", "s", "e", "n", "t", "i", "m", "e", "n", "t", "\"", ":",
      " ", "\"", "P", "o", "s", "i", "t", "i", "v", "e", "\"", ",", " ",
      "\"", "r", "e", "a", "s", "o", "n", "\"", ":", " ", "\"", "o", "k",
      "\"", ",", " ", "\"", "c", "o", "n", "f", "i", "d", "e", "n", "c",
      "e", "_", "s", "c", "o", "r", "e", "\"", ":", " ", "0", ".", "8",
      "5", "}">>

\*  {"sentiment":"Negative","confidence_score":0.0}\n
ReplyPadded ==
    <<" ", "{", "\"", "s", "e", "n", "t", "i", "m", "e", "n", "t", "\"",
      ":", "\"", "N", "e", "g", "a", "t", "i", "v", "e", "\"", ",", "\"",
      "c", "o", "n", "f", "i", "d", "e", "n", "c", "e", "_", "s", "c",
      "o", "r", "e", "\"", ":", "0", ".", "0", "}", "\n">>

\* {}
ReplyEmptyObject ==
    <<"{", "}">>

\* {"sentiment": "Negative", "reason": "r", "confidence_score": 1.5}
ReplyOverOne ==
    <<"{", "\"", "s", "e", "n", "t", "i", "m", "e", "n", "t", "\"", ":",
      " ", "\"", "N", "e", "g", "a", "t", "i", "v", "e", "\"", ",", " ",
      "\"", "r", "e", "a", "s", "o", "n", "\"", ":", " ", "\"", "r",
      "\"", ",", " ", "\"", "c", "o", "n", "f", "i", "d", "e", "n", "c",
      "e", "_", "s", "c", "o", "r", "e", "\"", ":", " ", "1", ".", "5",
      "}">>

\* {"confidence_score": -0.2}
ReplyBelowZero ==
    <<"{", "\"", "c", "o", "n", "f", "i", "d", "e", "n", "c", "e", "_",
      "s", "c", "o", "r", "e", "\"", ":", " ", "-", "0", ".", "2", "}">>

\* {"confidence_score": 1}
ReplyOne ==
    <<"{", "\"", "c", "o", "n", "f", "i", "d", "e", "n", "c", "e", "_",
      "s", "c", "o", "r", "e", "\"", ":", " ", "1", "}">>

\* {"sentiment": "Bullish"}
ReplyUnknownSentiment ==
    <<"{", "\"", "s", "e", "n", "t", "i", "m", "e", "n", "t", "\"", ":",
      " ", "\"", "B", "u", "l", "l", "i", "s", "h", "\"", "}">>

\* {"sentiment": "positive", "confidence_score": "0.9"}
ReplyLowerSentiment ==
    <<"{", "\"", "s", "e", "n", "t", "i", "m", "e", "n", "t", "\"", ":",
      " ", "\"", "p", "o", "s", "i", "t", "i", "v", "e", "\"", ",", " ",
      "\"", "c", "o", "n", "f", "i", "d", "e", "n", "c", "e", "_", "s",
      "c", "o", "r", "e", "\"", ":", " ", "\"", "0", ".", "9", "\"", "}">>

\* {"confidence_score": "high"}
ReplyWordConfidence ==
    <<"{", "\"", "c", "o", "n", "f", "i", "d", "e", "n", "c", "e", "_",
      "s", "c", "o", "r", "e", "\"", ":", " ", "\"", "h", "i", "g", "h",
      "\"", "}">>

\* {"confidence_score": null}
ReplyNullConfidence ==
    <<"{", "\"", "c", "o", "n", "f", "i", "d", "e", "n", "c", "e", "_",
      "s", "c", "o", "r", "e", "\"", ":", " ", "n", "u", "l", "l", "}">>

\* {"sentiment": null}
ReplyNullSentiment ==
    <<"{", "\"", "s", "e", "n", "t", "i", "m", "e", "n", "t", "\"", ":",
      " ", "n", "u", "l", "l", "}">>

\* {"reason": ""}
ReplyEmptyReason ==
    <<"{", "\"", "r", "e", "a", "s", "o", "n", "\"", ":", " ", "\"",
      "\"", "}">>

\* {"sentiment": "Positive", "sentiment": "Neutral"}
ReplyRepeatedKey ==
    <<"{", "\"", "s", "e", "n", "t", "i", "m", "e", "n", "t", "\"", ":",
      " ", "\"", "P", "o", "s", "i", "t", "i", "v", "e", "\"", ",", " ",
      "\"", "s", "e", "n", "t", "i", "m", "e", "n", "t", "\"", ":", " ",
      "\"", "N", "e", "u", "t", "r", "a", "l", "\"", "}">>

\* 42
ReplyNumber ==
    <<"4", "2">>

\* [0.5, "Positive"]
ReplyArray ==
    <<"[", "0", ".", "5", ",", " ", "\"", "P", "o", "s", "i", "t", "i",
      "v", "e", "\"", "]">>

\* {"sentiment": "Positive"
ReplyUnclosed ==
    <<"{", "\"", "s", "e", "n", "t", "i", "m", "e", "n", "t", "\"", ":",
      " ", "\"", "P", "o", "s", "i", "t", "i", "v", "e", "\"">>

\* Overall NEGATIVE outlook
ReplyUpperNegative ==
    <<"O", "v", "e", "r", "a", "l", "l", " ", "N", "E", "G", "A", "T",
      "I", "V", "E", " ", "o", "u", "t", "l", "o", "o", "k">>

\*  Not negative, rather positive.\n
ReplyBothTokens ==
    <<" ", "N", "o", "t", " ", "n", "e", "g", "a", "t", "i", "v", "e",
      ",", " ", "r", "a", "t", "h", "e", "r", " ", "p", "o", "s", "i",
      "t", "i", "v", "e", ".", "\n">>

\* no signal
ReplyNoToken ==
    <<"n", "o", " ", "s", "i", "g", "n", "a", "l">>

\*  
ReplyBlank ==
    <<" ">>

ProviderContents ==
    {LongText(ReasonLimit), LongText(ReasonLimit + 1),
     <<" ">> \o LongText(ReasonLimit) \o <<"\n">>,
     <<"\n">> \o LongText(ReasonLimit + 1) \o <<" ">>,
     ReplyFull,
     ReplyPadded,
     ReplyEmptyObject,
     ReplyOverOne,
     ReplyBelowZero,
     ReplyOne,
     ReplyUnknownSentiment,
     ReplyLowerSentiment,
     ReplyWordConfidence,
     ReplyNullConfidence,
     ReplyNullSentiment,
     ReplyEmptyReason,
     ReplyRepeatedKey,
     ReplyNumber,
     ReplyArray,
     ReplyUnclosed,
     ReplyUpperNegative,
     ReplyBothTokens,
     ReplyNoToken,
     ReplyBlank}


\* ---------------------------------------------------------------- state
VARIABLES
    started,        \* the startup event has run
    openai_client,  \* the global handle: "None" or "client"
    pending,        \* requests accepted and waiting for the event loop
    req             \* the request the event loop runs, or ran last

vars == <<started, openai_client, pending, req>>

NoResponse == Response(<<>>, <<>>, <<>>, 0)

\* pc: "idle" (the event loop is free), "calling" (inside the provider
\* call), "responded" (the handler returned or raised its HTTP error, and
\* the response is being written).
Request(pc, symbol, news_items, provider_calls, heuristic_calls, reply, raised, path, status, response) ==
    [pc |-> pc, symbol |-> symbol, news_items |-> news_items,
     provider_calls |-> provider_calls, heuristic_calls |-> heuristic_calls,
     reply |-> reply, raised |-> raised, path |-> path, status |-> status,
     response |-> response]

IdleRequest ==
    Request("idle", <<>>, <<>>, 0, 0, ReplyNone, FALSE, "none", 0, NoResponse)

Init ==
    /\ started = FALSE
    /\ openai_client = "None"
    /\ pending = 0
    /\ req = IdleRequest

init_openai_client(api_key, importable) ==
    IF ~importable THEN "None"
    ELSE IF api_key \in {"unset", ""} \/ api_key = "your_openai_api_key_here"
    THEN "None"
    ELSE "client"

startup_event ==
    /\ ~started
    /\ \E api_key \in ApiKeys, importable \in BOOLEAN :
           openai_client' = init_openai_client(api_key, importable)
    /\ started' = TRUE
    /\ UNCHANGED <<pending, req>>

\* The server accepts a request; its handler waits for the event loop.
Arrive ==
    /\ started
    /\ pending < MaxPending
    /\ pending' = pending + 1
    /\ UNCHANGED <<started, openai_client, req>>

\* The HTTP status analyze_news ends with for what real_analyze_news did.
StatusOf(outcome) == IF outcome.raised THEN 500 ELSE 200

\* analyze_news rejects the request.
Reject(symbol, news_items) ==
    /\ InvalidRequest(symbol, news_items)
    /\ req' = Request("responded", symbol, news_items, 0, 0, ReplyNone, FALSE,
                      "rejected", 400, NoResponse)

\* real_analyze_news without a client.
ServeWithoutClient(symbol, news_items) ==
    /\ ~InvalidRequest(symbol, news_items)
    /\ ~ClientConfigured(openai_client)
    /\ req' = Request("responded", symbol, news_items, 0, 1, ReplyNone, FALSE,
                      "no_client", 200,
                      mock_analyze_news(symbol, news_items))

\* real_analyze_news enters the provider call, which does not yield.
CallProvider(symbol, news_items) ==
    /\ ~InvalidRequest(symbol, news_items)
    /\ ClientConfigured(openai_client)
    /\ req' = Request("calling", symbol, news_items, 1, 0, ReplyNone, FALSE,
                      "none", 0, NoResponse)

\* The event loop runs the handler of a waiting request, up to its return or
\* to the provider call.
analyze_news ==
    /\ started
    /\ pending > 0
    /\ req.pc = "idle"
    /\ pending' = pending - 1
    /\ \E symbol \in Symbols, news_items \in NewsLists :
           \/ Reject(symbol, news_items)
           \/ ServeWithoutClient(symbol, news_items)
           \/ CallProvider(symbol, news_items)
    /\ UNCHANGED <<started, openai_client>>

\* The provider call ends with reply, and the handler runs to its return.
Complete(reply) ==
    LET tried == ParseReply(req.symbol, reply)
        outcome == AfterTry(req.symbol, req.news_items, tried)
    IN  req' = [req EXCEPT !.pc = "responded",
                           !.reply = reply,
                           !.raised = tried.raised,
                           !.heuristic_calls =
                               IF outcome.path = "fallback" THEN 1 ELSE 0,
                           !.path = outcome.path,
                           !.status = StatusOf(outcome),
                           !.response = outcome.response]

ProviderRaises ==
    /\ req.pc = "calling"
    /\ Complete(ReplyRaise)
    /\ UNCHANGED <<started, openai_client, pending>>

ProviderReturnsNoContent ==
    /\ req.pc = "calling"
    /\ Complete(ReplyNone)
    /\ UNCHANGED <<started, openai_client, pending>>

ProviderReturns ==
    /\ req.pc = "calling"
    /\ \E content \in ProviderContents : Complete(ReplyText(content))
    /\ UNCHANGED <<started, openai_client, pending>>

\* The response is written to the client and the event loop is free again.
SendResponse ==
    /\ req.pc = "responded"
    /\ req' = IdleRequest
    /\ UNCHANGED <<started, openai_client, pending>>

Next ==
    \/ startup_event
    \/ Arrive
    \/ analyze_news
    \/ ProviderRaises
    \/ ProviderReturnsNoContent
    \/ ProviderReturns
    \/ SendResponse

Spec == Init /\ [][Next]_vars

\* The server starts, and the event loop runs what is ready to run; nothing
\* in the program makes the provider call end.
FairSpec ==
    /\ Spec
    /\ WF_vars(startup_event)
    /\ WF_vars(analyze_news)
    /\ WF_vars(SendResponse)

\* --------------------------------------------------------------- claims
Responded == req.pc = "responded"

AAPL == <<"A", "A", "P", "L">>

\* C1: when the provider call, or a later step of the provider path, raises,
\* the provider was called once only, the caller gets a response and no
\* error, and the response is the heuristic's for the same symbol and news.
C1_ProviderFailureFallsBack ==
    (Responded /\ req.provider_calls > 0 /\ req.raised) =>
        /\ req.provider_calls = 1
        /\ req.status = 200
        /\ req.response = mock_analyze_news(req.symbol, req.news_items)

C1_Witness ==
    /\ Responded
    /\ req.reply.kind = "raise"
    /\ req.raised
    /\ req.response.sentiment = Negative

\* C2: without a client no provider call is ever made, and every valid
\* request is answered with the heuristic's response.
C2_NoClientIsHeuristic ==
    openai_client = "None" =>
        /\ req.provider_calls = 0
        /\ req.pc # "calling"
        /\ (Responded /\ req.symbol # <<>> /\ req.news_items # <<>>) =>
               /\ req.status = 200
               /\ req.path = "no_client"
               /\ req.response
                      = mock_analyze_news(req.symbol, req.news_items)

C2_Witness ==
    /\ Responded
    /\ openai_client = "None"
    /\ req.path = "no_client"
    /\ req.response.sentiment = Positive

Sentiments == {Positive, Negative, Neutral}

\* C3: every response returned has a sentiment among Positive, Negative and
\* Neutral, a confidence within [0, 1] and a reason that is not empty.
C3_ResponseWellFormed ==
    (Responded /\ req.status = 200) =>
        /\ req.response.sentiment \in Sentiments
        /\ req.response.confidence_score >= 0
        /\ req.response.confidence_score <= 100
        /\ req.response.reason # <<>>

\* C4: a request with an empty symbol or an empty news list ends with the
\* validation error, with neither the provider nor the heuristic called.
C4_InvalidRequestRejected ==
    (req.pc # "idle" /\ (req.symbol = <<>> \/ req.news_items = <<>>)) =>
        /\ Responded
        /\ req.status = 400
        /\ req.provider_calls = 0
        /\ req.heuristic_calls = 0

C4_Witness ==
    /\ Responded
    /\ req.symbol = AAPL
    /\ req.news_items = <<>>
    /\ req.status = 400

\* C5: in heuristic mode AAPL with the two news items of the example is
\* Positive with confidence 0.7 and a reason that names 1 signal.
C5_ExampleScenario ==
    (/\ Responded
     /\ req.path = "no_client"
     /\ req.symbol = AAPL
     /\ req.news_items = <<ItemIphone, ItemTechRise>>) =>
        /\ req.response.sentiment = Positive
        /\ req.response.confidence_score = 70
        /\ Contains(<<"1">>, req.response.reason)

\* The signal counts of a news list and the heuristic's response to it.
HeuristicRow(news_items) ==
    [p |-> CountSignals(positive_keywords, news_items),
     n |-> CountSignals(negative_keywords, news_items),
     r |-> mock_analyze_news(<<>>, news_items)]

\* The rows of all news lists.
HeuristicRows == {HeuristicRow(l) : l \in NewsLists}

\* C6: a Positive response of the heuristic has a confidence of at most 0.9,
\* and no news list with as many negative signals and at least as many
\* positive ones gets a lower confidence.
C6_ConfidenceMonotoneAndCapped ==
    (Responded /\ req.path \in {"no_client", "fallback"}
               /\ req.response.sentiment = Positive) =>
        LET given == HeuristicRow(req.news_items)
        IN  /\ req.response.confidence_score <= 90
            /\ \A row \in HeuristicRows :
                   (row.n = given.n /\ row.p >= given.p)
                   => /\ row.r.sentiment = Positive
                      /\ row.r.confidence_score
                             >= req.response.confidence_score

C6_Witness ==
    /\ Responded
    /\ req.path = "fallback"
    /\ req.response.sentiment = Positive
    /\ CountSignals(positive_keywords, req.news_items) >= 4
    /\ \E row \in HeuristicRows :
           /\ row.n = CountSignals(negative_keywords, req.news_items)
           /\ row.p > CountSignals(positive_keywords, req.news_items)
    /\ req.response.confidence_score = 90

\* The sentiments a scan of text for "positive" and "negative", whatever
\* their case, may give.
ScanSentiments(text) ==
    LET hasPositive == Contains(lower(Positive), lower(text))
        hasNegative == Contains(lower(Negative), lower(text))
    IN  (IF hasPositive THEN {Positive} ELSE {})
        \cup (IF hasNegative THEN {Negative} ELSE {})
        \cup (IF ~hasPositive /\ ~hasNegative THEN {Neutral} ELSE {})

\* text if it has at most 200 characters, else its first 200 and "...".
Truncated(text) ==
    IF Len(text) <= 200 THEN text
    ELSE SubSeq(text, 1, 200) \o <<".", ".", ".">>

NotJson == Responded /\ req.reply.kind = "text"
           /\ ~json_loads(req.reply.content).ok

\* C7 as stated: text of the provider that is no JSON is answered on the
\* provider path with the scanned sentiment, confidence 0.8 and the raw text,
\* cut to 200 characters, as the reason.
C7_LooseParseOfRawText ==
    NotJson =>
        /\ req.path = "loose"
        /\ req.status = 200
        /\ req.response.sentiment \in ScanSentiments(req.reply.content)
        /\ req.response.confidence_score = 80
        /\ req.response.reason = Truncated(req.reply.content)

\* C7 as amended: the reason is the text with the whitespace at its ends
\* removed, cut to 200 characters.
C7_LooseParseOfStrippedText ==
    NotJson =>
        /\ req.path = "loose"
        /\ req.status = 200
        /\ req.response.sentiment \in ScanSentiments(req.reply.content)
        /\ req.response.confidence_score = 80
        /\ req.response.reason = Truncated(strip(req.reply.content))

C7_Witness ==
    /\ NotJson
    /\ req.path = "loose"
    /\ req.reply.content # strip(req.reply.content)
    /\ Len(req.response.reason) = 203
    /\ req.response.sentiment = Negative

Clamp(n) == IF n < 0 THEN 0 ELSE IF n > 100 THEN 100 ELSE n

\* C8: a reply that parses as a JSON object is answered on the provider
\* path, with the confidence_score converted to float, 0.7 when it is missing
\* or cannot be converted, clamped into [0, 1], and with Neutral for a
\* sentiment that is missing or not one of the three.
C8_StructuredReplyClamped ==
    (/\ Responded
     /\ req.reply.kind = "text"
     /\ json_loads(req.reply.content).ok
     /\ json_loads(req.reply.content).val.t = "object") =>
        LET members == json_loads(req.reply.content).val.m
            given == dict_get(members, KeyConfidence,
                              JValue("float", <<>>, 70, <<>>))
            sentiment == dict_get(members, KeySentiment, JString(Neutral))
        IN  /\ req.path = "structured"
            /\ req.response.confidence_score
                   = Clamp(IF float_of(given).ok THEN float_of(given).n
                           ELSE 70)
            /\ req.response.sentiment
                   = IF sentiment.t = "string" /\ sentiment.s \in Sentiments
                     THEN sentiment.s
                     ELSE Neutral

\* C9: a request inside the provider call gets its response in the end,
\* whether or not the provider answers.
C9_RequestTerminates == (req.pc = "calling") ~> Responded

\* C10: while a request is inside the provider call, the handler of a
\* waiting request can run.
C10_WaitingRequestCanRun ==
    (req.pc = "calling" /\ pending > 0) => ENABLED analyze_news

====
